---- MODULE Spec2Model ----
(***************************************************************************)
(* Model of InputYMLFormatter/standardize_kb.py: the field resolver, the   *)
(* value normalizers, the document transformer, the validator and the     *)
(* load / standardize / validate / save pipeline of main().                *)
(*                                                                         *)
(* Python strings are sequences of one-character strings, so that lower(), *)
(* strip(), split(), startswith() and the regular expressions are computed *)
(* character by character.  Python values are records [t, v] tagged with   *)
(* their type.  The only whitespace character of the model's alphabet is   *)
(* the space; the alphabet holds no underscore-in-number, quote ' or       *)
(* backslash, so repr() of a string is the string between single quotes.   *)
(***************************************************************************)
EXTENDS Integers, Sequences, FiniteSets, TLC

VARIABLES pc, argc, raw, std, issues, formatted, saved, arg, ret

vars == <<pc, argc, raw, std, issues, formatted, saved, arg, ret>>

(***************************************************************************)
(* Sequences and strings                                                   *)
(***************************************************************************)
UpperAlpha == <<"A","B","C","D","E","F","G","H","I","J","K","L","M","N","O","P","Q","R","S","T","U","V","W","X","Y","Z">>

LowerAlpha == <<"a","b","c","d","e","f","g","h","i","j","k","l","m","n","o","p","q","r","s","t","u","v","w","x","y","z">>

Digits == <<"0","1","2","3","4","5","6","7","8","9">>

DQUOTE == "\""

\* the sequence a function constructor over 1..n denotes, as an explicit tuple
Tuple(f) == f \o <<>>

SetMin(s) == CHOOSE x \in s : \A y \in s : x <= y

SetMax(s) == CHOOSE x \in s : \A y \in s : x >= y

\* index of the first occurrence of c in seq, 0 when there is none
IndexIn(c, seq) ==
    LET hits == {i \in 1..Len(seq) : seq[i] = c}
    IN  IF hits = {} THEN 0 ELSE SetMin(hits)

LowerChar(c) ==
    LET i == IndexIn(c, UpperAlpha) IN IF i > 0 THEN LowerAlpha[i] ELSE c

UpperChar(c) ==
    LET i == IndexIn(c, LowerAlpha) IN IF i > 0 THEN UpperAlpha[i] ELSE c

\* str.lower()
Lower(s) == Tuple([i \in 1..Len(s) |-> LowerChar(s[i])])

\* str.upper()
Upper(s) == Tuple([i \in 1..Len(s) |-> UpperChar(s[i])])

\* str.capitalize(): first character upper-cased, the rest lower-cased
Capitalize(s) ==
    Tuple([i \in 1..Len(s) |-> IF i = 1 THEN UpperChar(s[i]) ELSE LowerChar(s[i])])

IsSpace(c) == c = " "

\* str.strip(chars): drops leading and trailing characters of the set cs
StripChars(s, cs) ==
    LET keep == {i \in 1..Len(s) : s[i] \notin cs}
    IN  IF keep = {} THEN <<>> ELSE SubSeq(s, SetMin(keep), SetMax(keep))

\* str.strip()
Strip(s) == StripChars(s, {" "})

\* str.lstrip(chars)
LStripChars(s, cs) ==
    LET keep == {i \in 1..Len(s) : s[i] \notin cs}
    IN  IF keep = {} THEN <<>> ELSE SubSeq(s, SetMin(keep), Len(s))

\* str.startswith(p)
StartsWith(s, p) == Len(p) <= Len(s) /\ SubSeq(s, 1, Len(p)) = p

\* s[n:]
Drop(s, n) == SubSeq(s, n + 1, Len(s))

\* str.split(c) on a one-character separator: always at least one part
RECURSIVE Split(_, _)
Split(s, c) ==
    LET i == IndexIn(c, s)
    IN  IF i = 0 THEN <<s>>
        ELSE <<SubSeq(s, 1, i - 1)>> \o Split(Drop(s, i), c)

\* str.split(): the maximal runs of non-whitespace characters
RECURSIVE SplitWs(_)
SplitWs(s) ==
    LET t == LStripChars(s, {" "})
        i == IndexIn(" ", t)
    IN  IF t = <<>> THEN <<>>
        ELSE IF i = 0 THEN <<t>>
        ELSE <<SubSeq(t, 1, i - 1)>> \o SplitWs(Drop(t, i))

\* sep.join(parts)
RECURSIVE Join(_, _)
Join(sep, parts) ==
    IF parts = <<>> THEN <<>>
    ELSE IF Len(parts) = 1 THEN parts[1]
    ELSE parts[1] \o sep \o Join(sep, Tail(parts))

\* str.replace(old, ""): every non-overlapping occurrence, left to right
RECURSIVE Remove(_, _)
Remove(s, old) ==
    IF s = <<>> THEN <<>>
    ELSE IF StartsWith(s, old) THEN Remove(Drop(s, Len(old)), old)
    ELSE <<Head(s)>> \o Remove(Tail(s), old)

\* re.sub(r'\s+', '', s)
RemoveWs(s) == SelectSeq(s, LAMBDA c : ~IsSpace(c))

\* str(n) of an integer
RECURSIVE NatToStr(_)
NatToStr(n) ==
    IF n < 10 THEN <<Digits[n + 1]>>
    ELSE NatToStr(n \div 10) \o <<Digits[(n % 10) + 1]>>

IntToStr(n) == IF n < 0 THEN <<"-">> \o NatToStr(0 - n) ELSE NatToStr(n)

AllDigits(s) == s # <<>> /\ \A i \in 1..Len(s) : IndexIn(s[i], Digits) > 0

RECURSIVE DigitsToNat(_)
DigitsToNat(s) ==
    IF s = <<>> THEN 0
    ELSE 10 * DigitsToNat(SubSeq(s, 1, Len(s) - 1)) + (IndexIn(s[Len(s)], Digits) - 1)

\* int(s) accepts surrounding whitespace, an optional sign and decimal digits
IntBody(s) ==
    LET t == Strip(s)
    IN  IF t # <<>> /\ Head(t) \in {"+", "-"} THEN Tail(t) ELSE t

IntParses(s) == AllDigits(IntBody(s))

ParseInt(s) ==
    LET t == Strip(s)
        n == DigitsToNat(IntBody(s))
    IN  IF t # <<>> /\ Head(t) = "-" THEN 0 - n ELSE n

\* str.zfill(w): zeros are inserted after a leading sign
RECURSIVE Zeros(_)
Zeros(n) == IF n <= 0 THEN <<>> ELSE <<"0">> \o Zeros(n - 1)

ZFill(s, w) ==
    IF s # <<>> /\ Head(s) \in {"+", "-"}
    THEN <<Head(s)>> \o Zeros(w - Len(s)) \o Tail(s)
    ELSE Zeros(w - Len(s)) \o s

(***************************************************************************)
(* Python values                                                           *)
(***************************************************************************)
PyNone == [t |-> "none", v |-> <<>>]

PyStr(s) == [t |-> "str", v |-> s]

PyInt(n) == [t |-> "int", v |-> n]

PyBool(b) == [t |-> "bool", v |-> b]

PyList(xs) == [t |-> "list", v |-> xs]

\* a dict is the sequence of its <<key, value>> items in insertion order
PyDict(items) == [t |-> "dict", v |-> items]

IsList(x) == x.t = "list"

IsDict(x) == x.t = "dict"

\* bool(x): None, False, 0 and empty strings, lists and dicts are falsy
Truthy(x) ==
    CASE x.t = "none" -> FALSE
      [] x.t = "bool" -> x.v
      [] x.t = "int"  -> x.v # 0
      [] OTHER        -> x.v # <<>>

\* x or y
Or(x, y) == IF Truthy(x) THEN x ELSE y

\* repr(x) and str(x); they differ on strings only
RECURSIVE Repr(_)
Repr(x) ==
    CASE x.t = "none" -> <<"N","o","n","e">>
      [] x.t = "bool" -> IF x.v THEN <<"T","r","u","e">> ELSE <<"F","a","l","s","e">>
      [] x.t = "int"  -> IntToStr(x.v)
      [] x.t = "str"  -> <<"'">> \o x.v \o <<"'">>
      [] x.t = "list" ->
           <<"[">> \o Join(<<","," ">>, Tuple([i \in 1..Len(x.v) |-> Repr(x.v[i])])) \o <<"]">>
      [] x.t = "dict" ->
           <<"{">> \o Join(<<","," ">>, Tuple([i \in 1..Len(x.v) |->
                        Repr(x.v[i][1]) \o <<":"," ">> \o Repr(x.v[i][2])])) \o <<"}">>

Str(x) == IF x.t = "str" THEN x.v ELSE Repr(x)

HasKey(items, k) == \E i \in 1..Len(items) : items[i][1] = k

\* d[k] = v on the item sequence: an existing key keeps its place, a new key
\* goes to the end
DictSet(items, k, v) ==
    IF HasKey(items, k)
    THEN Tuple([i \in 1..Len(items) |-> IF items[i][1] = k THEN <<k, v>> ELSE items[i]])
    ELSE Append(items, <<k, v>>)

\* d.get(k): None when the key is missing
DictGet(items, k) ==
    IF HasKey(items, k)
    THEN items[CHOOSE i \in 1..Len(items) : items[i][1] = k][2]
    ELSE PyNone

(***************************************************************************)
(* Constants of the output schema and the alias tables                     *)
(***************************************************************************)
OUT_TOPIC == <<"T","o","p","i","c"," ","N","a","m","e">>

OUT_SUBTOPIC == <<"S","u","b"," ","T","o","p","i","c"," ","N","a","m","e">>

OUT_TOTAL == <<"T","o","t","a","l"," ","Q","u","e","s","t","i","o","n"," ","C","o","u","n","t">>

OUT_QUESTIONS == <<"a","l","l"," ","q","u","e","s","t","i","o","n","s">>

OUT_Q_NO == <<"Q","u","e","s","t","i","o","n"," ","N","o">>

OUT_Q_TEXT == <<"q","u","e","s","t","i","o","n">>

OUT_Q_OPTIONS == <<"t","h","e","i","r","_","o","p","t","i","o","n","s">>

OUT_Q_ANSWER == <<"c","o","r","r","e","c","t"," ","A","n","s","w","e","r">>

OUT_Q_EXPLANATION == <<"e","x","p","l","a","n","a","t","i","o","n">>

OUT_Q_DIFFICULTY == <<"d","i","f","f","i","c","u","l","t","y"," ","l","e","v","e","l">>

OUT_Q_TOPIC == <<"t","o","p","i","c">>

OUT_Q_SUBTOPIC == <<"s","u","b"," ","t","o","p","i","c">>

OUT_Q_EXAM == <<"e","x","a","m">>

VALID_DIFFICULTIES == {<<"E","a","s","y">>, <<"M","e","d","i","u","m">>, <<"H","a","r","d">>}

VALID_EXAMS == {<<"C","o","r","e">>, <<"D","a","t","a","E","n","g","i","n","e","e","r">>, <<"D","a","t","a","A","n","a","l","y","s","t">>, <<"A","r","c","h","i","t","e","c","t">>}

OPTION_LABELS == <<<<"o","p","t","i","o","n"," ","A">>, <<"o","p","t","i","o","n"," ","B">>, <<"o","p","t","i","o","n"," ","C">>, <<"o","p","t","i","o","n"," ","D">>, <<"o","p","t","i","o","n"," ","E">>>>

TOPIC_KEYS == <<<<"T","o","p","i","c"," ","N","a","m","e">>, <<"t","o","p","i","c"," ","n","a","m","e">>, <<"T","o","p","i","c">>, <<"t","o","p","i","c">>>>

SUBTOPIC_KEYS ==
    <<<<"S","u","b"," ","T","o","p","i","c"," ","N","a","m","e">>, <<"s","u","b"," ","t","o","p","i","c"," ","n","a","m","e">>, <<"S","u","b"," ","T","o","p","i","c">>, <<"s","u","b","t","o","p","i","c">>, <<"s","u","b","_","t","o","p","i","c">>>>

TOTAL_KEYS ==
    <<<<"T","o","t","a","l"," ","Q","u","e","s","t","i","o","n"," ","C","o","u","n","t">>, <<"t","o","t","a","l"," ","q","u","e","s","t","i","o","n"," ","c","o","u","n","t">>, <<"t","o","t","a","l","_","q","u","e","s","t","i","o","n","s">>,
      <<"q","u","e","s","t","i","o","n","_","c","o","u","n","t">>>>

QUESTIONS_KEYS == <<<<"a","l","l"," ","q","u","e","s","t","i","o","n","s">>, <<"a","l","l","_","q","u","e","s","t","i","o","n","s">>, <<"q","u","e","s","t","i","o","n","s">>, <<"Q","u","e","s","t","i","o","n","s">>>>

Q_NO_KEYS == <<<<"Q","u","e","s","t","i","o","n"," ","N","o">>, <<"q","u","e","s","t","i","o","n"," ","n","o">>, <<"q","u","e","s","t","i","o","n","_","n","o">>, <<"Q"," ","N","o">>, <<"i","d">>>>

Q_TEXT_KEYS == <<<<"q","u","e","s","t","i","o","n">>, <<"Q","u","e","s","t","i","o","n">>, <<"q">>, <<"Q">>>>

Q_OPTIONS_KEYS == <<<<"t","h","e","i","r","_","o","p","t","i","o","n","s">>, <<"t","h","e","i","r"," ","o","p","t","i","o","n","s">>, <<"o","p","t","i","o","n","s">>, <<"O","p","t","i","o","n","s">>>>

Q_ANSWER_KEYS ==
    <<<<"c","o","r","r","e","c","t"," ","A","n","s","w","e","r">>, <<"c","o","r","r","e","c","t"," ","a","n","s","w","e","r">>, <<"c","o","r","r","e","c","t","_","a","n","s","w","e","r">>, <<"a","n","s","w","e","r">>, <<"A","n","s","w","e","r">>>>

Q_EXPL_KEYS == <<<<"e","x","p","l","a","n","a","t","i","o","n">>, <<"E","x","p","l","a","n","a","t","i","o","n">>>>

Q_DIFF_KEYS == <<<<"d","i","f","f","i","c","u","l","t","y"," ","l","e","v","e","l">>, <<"d","i","f","f","i","c","u","l","t","y","_","l","e","v","e","l">>, <<"d","i","f","f","i","c","u","l","t","y">>, <<"D","i","f","f","i","c","u","l","t","y">>>>

Q_TOPIC_KEYS == <<<<"t","o","p","i","c">>, <<"T","o","p","i","c">>>>

Q_SUBTOPIC_KEYS == <<<<"s","u","b"," ","t","o","p","i","c">>, <<"s","u","b","_","t","o","p","i","c">>, <<"s","u","b","t","o","p","i","c">>, <<"S","u","b"," ","T","o","p","i","c">>>>

Q_EXAM_KEYS == <<<<"e","x","a","m">>, <<"E","x","a","m">>, <<"e","x","a","m","s">>, <<"E","x","a","m","s">>>>

(***************************************************************************)
(* Field resolver                                                          *)
(***************************************************************************)
\* {k.lower().strip(): v for k, v in d.items()}: a later item overwrites an
\* earlier one whose key folds to the same string
RECURSIVE LowerMapFrom(_, _)
LowerMapFrom(items, acc) ==
    IF items = <<>> THEN acc
    ELSE LowerMapFrom(Tail(items),
                      DictSet(acc, Strip(Lower(Head(items)[1].v)), Head(items)[2]))

lower_map(d) == LowerMapFrom(d.v, <<>>)

\* d.items() needs a dict and k.lower() a string key: anything else raises
\* AttributeError
FirstValueRaises(d) ==
    \/ ~IsDict(d)
    \/ \E i \in 1..Len(d.v) : d.v[i][1].t # "str"

\* the loop over the aliases: the first alias whose folded key holds a value
\* other than None
RECURSIVE FirstValueLoop(_, _)
FirstValueLoop(lm, keys) ==
    IF keys = <<>> THEN PyNone
    ELSE LET val == DictGet(lm, Strip(Lower(Head(keys))))
         IN  IF val # PyNone THEN val ELSE FirstValueLoop(lm, Tail(keys))

first_value(d, keys) == FirstValueLoop(lower_map(d), keys)

(***************************************************************************)
(* Value normalizers                                                       *)
(***************************************************************************)
\* a mutation of DifficultyMatches: the input is a prefix of the canonical value
DifficultyMatches_InputIsPrefix(s) ==
    {d \in VALID_DIFFICULTIES : s # <<>> /\ StartsWith(Lower(d), Lower(s))}

\* the canonical difficulties that raw (capitalized, then lower-cased again)
\* starts with; no canonical value is a prefix of another, so at most one
DifficultyMatches(s) ==
    {d \in VALID_DIFFICULTIES : StartsWith(Lower(s), Lower(d))}

normalize_difficulty(x) ==
    IF ~Truthy(x) THEN <<"M","e","d","i","u","m">>
    ELSE LET s == Capitalize(Strip(Str(x)))
         IN  IF DifficultyMatches(s) # {}
             THEN CHOOSE d \in DifficultyMatches(s) : TRUE
             ELSE <<"M","e","d","i","u","m">>

\* next((e for e in VALID_EXAMS if e.lower() == tag.lower()), None)
ExamMatch(tag) ==
    LET hits == {e \in VALID_EXAMS : Lower(e) = Lower(tag)}
    IN  IF hits = {} THEN <<>> ELSE <<CHOOSE e \in hits : TRUE>>

RECURSIVE ExamLoop(_)
ExamLoop(tags) ==
    IF tags = <<>> THEN <<>> ELSE ExamMatch(Head(tags)) \o ExamLoop(Tail(tags))

normalize_exam(x) ==
    IF ~Truthy(x) THEN <<"C","o","r","e">>
    ELSE LET tags == IF IsList(x)
                     THEN Tuple([i \in 1..Len(x.v) |-> Strip(Str(x.v[i]))])
                     ELSE LET parts == Split(Str(x), ",")
                          IN  Tuple([i \in 1..Len(parts) |-> Strip(parts[i])])
             normalized == ExamLoop(tags)
         IN  IF normalized # <<>> THEN Join(<<","," ">>, normalized) ELSE <<"C","o","r","e">>

\* re.sub(r'\s+', '', str(k).lower()).replace('option', '')
CleanOptionKey(k) == Remove(RemoveWs(Lower(Str(k))), <<"o","p","t","i","o","n">>)

OptionLetters == {<<"a">>, <<"b">>, <<"c">>, <<"d">>, <<"e">>}

\* the key_map loop: a later key overwrites an earlier one with the same letter
RECURSIVE KeyMapFrom(_, _)
KeyMapFrom(items, acc) ==
    IF items = <<>> THEN acc
    ELSE LET clean == CleanOptionKey(Head(items)[1])
         IN  KeyMapFrom(Tail(items),
                        IF clean \in OptionLetters
                        THEN DictSet(acc, clean, Head(items)[2])
                        ELSE acc)

\* the loop over OPTION_LABELS, from label number i on
RECURSIVE OptionsFromKeyMap(_, _)
OptionsFromKeyMap(km, i) ==
    IF i > Len(OPTION_LABELS) THEN <<>>
    ELSE LET label  == OPTION_LABELS[i]
             words  == SplitWs(label)
             letter == Lower(words[Len(words)])
         IN  (IF HasKey(km, letter)
              THEN << <<PyStr(label), PyStr(Strip(Str(DictGet(km, letter))))>> >>
              ELSE <<>>)
             \o OptionsFromKeyMap(km, i + 1)

normalize_options(x) ==
    IF IsDict(x) THEN PyDict(OptionsFromKeyMap(KeyMapFrom(x.v, <<>>), 1))
    ELSE IF IsList(x)
    THEN LET n == IF Len(x.v) < Len(OPTION_LABELS) THEN Len(x.v) ELSE Len(OPTION_LABELS)
         IN  PyDict(Tuple([i \in 1..n |-> <<PyStr(OPTION_LABELS[i]), PyStr(Strip(Str(x.v[i])))>>]))
    ELSE PyDict(<<>>)

\* [A-Ea-e]
IsLetterAE(c) == c \in {"A", "B", "C", "D", "E", "a", "b", "c", "d", "e"}

\* re.fullmatch(r'option [A-Ea-e](,\s*option [A-Ea-e])*', s, re.I)
RECURSIVE CanonicalListMatch(_)
CanonicalListMatch(s) ==
    /\ Len(s) >= 8
    /\ Lower(SubSeq(s, 1, 7)) = <<"o","p","t","i","o","n"," ">>
    /\ IsLetterAE(s[8])
    /\ LET rest == Drop(s, 8)
       IN  \/ rest = <<>>
           \/ /\ Head(rest) = ","
              /\ CanonicalListMatch(LStripChars(Tail(rest), {" "}))

\* the positions where r'option\s*([A-Ea-e])' matches, re.I: the word, any
\* run of whitespace, then the letter
OptionLetterAt(s, i) ==
    LET after == LStripChars(Drop(s, i + 5), {" "})
    IN  IF /\ i + 5 <= Len(s)
           /\ Lower(SubSeq(s, i, i + 5)) = <<"o","p","t","i","o","n">>
           /\ after # <<>>
           /\ IsLetterAE(Head(after))
        THEN <<Head(after)>>
        ELSE <<>>

\* re.search: the leftmost match, as the sequence of its group 1 (empty: no match)
OptionSearch(s) ==
    LET hits == {i \in 1..Len(s) : OptionLetterAt(s, i) # <<>>}
    IN  IF hits = {} THEN <<>> ELSE OptionLetterAt(s, SetMin(hits))

\* the branches of normalize_answer on a string that is already stripped
AnswerOfString(s) ==
    IF CanonicalListMatch(s)
    THEN LET parts == Split(s, ",")
         IN  Join(<<","," ">>, Tuple([i \in 1..Len(parts) |->
                  LET words == SplitWs(Strip(parts[i]))
                  IN  <<"o","p","t","i","o","n"," ">> \o Upper(words[Len(words)])]))
    ELSE IF Len(s) = 1 /\ IsLetterAE(s[1]) THEN <<"o","p","t","i","o","n"," ">> \o Upper(s)
    ELSE IF OptionSearch(s) # <<>> THEN <<"o","p","t","i","o","n"," ">> \o Upper(OptionSearch(s))
    ELSE s

RECURSIVE normalize_answer(_)
normalize_answer(x) ==
    IF ~Truthy(x) THEN <<>>
    ELSE IF IsList(x)
    THEN Join(<<","," ">>, Tuple([i \in 1..Len(x.v) |-> normalize_answer(x.v[i])]))
    ELSE AnswerOfString(Strip(Str(x)))

\* int() raising ValueError is caught: the stripped text is passed through
pad_question_no(n) ==
    LET s == LStripChars(Strip(Str(n)), {"0"})
        t == IF s # <<>> THEN s ELSE <<"0">>
    IN  IF IntParses(t) THEN ZFill(IntToStr(ParseInt(t)), 3) ELSE Strip(Str(n))

(***************************************************************************)
(* Document transformer                                                    *)
(***************************************************************************)
\* a call's outcome: the returned value, or the exception that left it
Returned(x) == [status |-> "ok", value |-> x]

Raised(e) == [status |-> e, value |-> PyNone]

\* a mutation of FallbackNo: the 0-based index itself
FallbackNo_ZeroBased(idx) == PyStr(IntToStr(idx))

\* str(idx + 1): the question number of a record that resolves none
FallbackNo(idx) == PyStr(IntToStr(idx + 1))

\* standardize_question on a record _first_value accepts
QuestionFields(raw_q, idx) ==
    LET q_no        == pad_question_no(Or(first_value(raw_q, Q_NO_KEYS),
                                          FallbackNo(idx)))
        question    == Or(first_value(raw_q, Q_TEXT_KEYS), PyStr(<<>>))
        raw_opts    == Or(first_value(raw_q, Q_OPTIONS_KEYS), PyDict(<<>>))
        options     == normalize_options(raw_opts)
        answer      == normalize_answer(first_value(raw_q, Q_ANSWER_KEYS))
        explanation == Or(first_value(raw_q, Q_EXPL_KEYS), PyStr(<<>>))
        difficulty  == normalize_difficulty(first_value(raw_q, Q_DIFF_KEYS))
        topic       == Or(first_value(raw_q, Q_TOPIC_KEYS), PyStr(<<>>))
        subtopic    == Or(first_value(raw_q, Q_SUBTOPIC_KEYS), PyStr(<<>>))
        exam        == normalize_exam(first_value(raw_q, Q_EXAM_KEYS))
    IN  PyDict(<<
          <<PyStr(OUT_Q_NO),          PyStr(<<DQUOTE>> \o q_no \o <<DQUOTE>>)>>,
          <<PyStr(OUT_Q_TEXT),        PyStr(Strip(Str(question)))>>,
          <<PyStr(OUT_Q_OPTIONS),     options>>,
          <<PyStr(OUT_Q_ANSWER),      PyStr(answer)>>,
          <<PyStr(OUT_Q_EXPLANATION), PyStr(Strip(Str(explanation)))>>,
          <<PyStr(OUT_Q_DIFFICULTY),  PyStr(difficulty)>>,
          <<PyStr(OUT_Q_TOPIC),       PyStr(Strip(Str(topic)))>>,
          <<PyStr(OUT_Q_SUBTOPIC),    PyStr(Strip(Str(subtopic)))>> ,
          <<PyStr(OUT_Q_EXAM),        PyStr(exam)>> >>)

\* idx is the 0-based position enumerate() gives
standardize_question(raw_q, idx) ==
    IF FirstValueRaises(raw_q) THEN Raised("AttributeError")
    ELSE Returned(QuestionFields(raw_q, idx))

\* the document of a standardize call that got past the list check
KnowledgeBase(data, raw_qs) ==
    LET topic     == Or(first_value(data, TOPIC_KEYS), PyStr(<<"U","n","k","n","o","w","n"," ","T","o","p","i","c">>))
        subtopic  == Or(first_value(data, SUBTOPIC_KEYS), PyStr(<<>>))
        questions == Tuple([i \in 1..Len(raw_qs.v) |->
                         standardize_question(raw_qs.v[i], i - 1).value])
    IN  PyDict(<<
          <<PyStr(OUT_TOPIC),     PyStr(Strip(Str(topic)))>>,
          <<PyStr(OUT_SUBTOPIC),  PyStr(Strip(Str(subtopic)))>>,
          <<PyStr(OUT_TOTAL),     PyInt(Len(questions))>>,
          <<PyStr(OUT_QUESTIONS), PyList(questions)>> >>)

standardize(data) ==
    IF FirstValueRaises(data) THEN Raised("AttributeError")
    ELSE LET raw_qs == Or(first_value(data, QUESTIONS_KEYS), PyList(<<>>))
         IN  IF ~IsList(raw_qs) THEN Raised("ValueError")
             ELSE IF \E i \in 1..Len(raw_qs.v) :
                        standardize_question(raw_qs.v[i], i - 1).status # "ok"
             THEN Raised("AttributeError")
             ELSE Returned(KnowledgeBase(data, raw_qs))

(***************************************************************************)
(* Validation                                                              *)
(***************************************************************************)
\* a mutation of QuestionIssues: the checks chained with elif, so that only
\* the first defect of a question is reported
QuestionIssues_FirstDefectOnly(q) ==
    LET qno  == DictGet(q.v, PyStr(OUT_Q_NO)).v
        diff == DictGet(q.v, PyStr(OUT_Q_DIFFICULTY)).v
    IN  IF ~Truthy(DictGet(q.v, PyStr(OUT_Q_TEXT)))
        THEN <<<<"Q">> \o qno \o <<":"," ","m","i","s","s","i","n","g"," ","q","u","e","s","t","i","o","n"," ","t","e","x","t">>>>
        ELSE IF ~Truthy(DictGet(q.v, PyStr(OUT_Q_OPTIONS)))
        THEN <<<<"Q">> \o qno \o <<":"," ","n","o"," ","o","p","t","i","o","n","s"," ","f","o","u","n","d">>>>
        ELSE IF ~Truthy(DictGet(q.v, PyStr(OUT_Q_ANSWER)))
        THEN <<<<"Q">> \o qno \o <<":"," ","m","i","s","s","i","n","g"," ","c","o","r","r","e","c","t"," ","a","n","s","w","e","r">>>>
        ELSE IF diff \notin VALID_DIFFICULTIES
        THEN <<<<"Q">> \o qno \o <<":"," ","i","n","v","a","l","i","d"," ","d","i","f","f","i","c","u","l","t","y"," ","'">> \o diff \o <<"'">>>>
        ELSE <<>>

\* the issues one question appends, in the order of the four checks
QuestionIssues(q) ==
    LET qno  == DictGet(q.v, PyStr(OUT_Q_NO)).v
        diff == DictGet(q.v, PyStr(OUT_Q_DIFFICULTY)).v
    IN  (IF ~Truthy(DictGet(q.v, PyStr(OUT_Q_TEXT)))
         THEN <<<<"Q">> \o qno \o <<":"," ","m","i","s","s","i","n","g"," ","q","u","e","s","t","i","o","n"," ","t","e","x","t">>>> ELSE <<>>)
        \o (IF ~Truthy(DictGet(q.v, PyStr(OUT_Q_OPTIONS)))
            THEN <<<<"Q">> \o qno \o <<":"," ","n","o"," ","o","p","t","i","o","n","s"," ","f","o","u","n","d">>>> ELSE <<>>)
        \o (IF ~Truthy(DictGet(q.v, PyStr(OUT_Q_ANSWER)))
            THEN <<<<"Q">> \o qno \o <<":"," ","m","i","s","s","i","n","g"," ","c","o","r","r","e","c","t"," ","a","n","s","w","e","r">>>> ELSE <<>>)
        \o (IF diff \notin VALID_DIFFICULTIES
            THEN <<<<"Q">> \o qno \o <<":"," ","i","n","v","a","l","i","d"," ","d","i","f","f","i","c","u","l","t","y"," ","'">> \o diff \o <<"'">>>>
            ELSE <<>>)

RECURSIVE ValidateLoop(_)
ValidateLoop(qs) ==
    IF qs = <<>> THEN <<>>
    ELSE QuestionIssues(Head(qs)) \o ValidateLoop(Tail(qs))

validate(kb) == ValidateLoop(DictGet(kb.v, PyStr(OUT_QUESTIONS)).v)

(***************************************************************************)
(* Output formatting                                                       *)
(***************************************************************************)
\* QuotedStr and LiteralStr are str subclasses: the value with its YAML style
QuotedStr(s) == [t |-> "QuotedStr", v |-> s]

LiteralStr(s) == [t |-> "LiteralStr", v |-> s]

format_for_yaml(kb) ==
    LET qs == DictGet(kb.v, PyStr(OUT_QUESTIONS)).v
    IN  PyDict(<<
          <<PyStr(OUT_TOPIC),    DictGet(kb.v, PyStr(OUT_TOPIC))>>,
          <<PyStr(OUT_SUBTOPIC), DictGet(kb.v, PyStr(OUT_SUBTOPIC))>>,
          <<PyStr(OUT_TOTAL),    DictGet(kb.v, PyStr(OUT_TOTAL))>>,
          <<PyStr(OUT_QUESTIONS),
            PyList(Tuple([i \in 1..Len(qs) |->
              PyDict(DictSet(DictSet(qs[i].v,
                PyStr(OUT_Q_NO),
                QuotedStr(StripChars(DictGet(qs[i].v, PyStr(OUT_Q_NO)).v, {DQUOTE}))),
                PyStr(OUT_Q_EXPLANATION),
                LiteralStr(DictGet(qs[i].v, PyStr(OUT_Q_EXPLANATION)).v)))]))>> >>)

\* to_serializable rebuilds every dict and list and returns the leaves as is
RECURSIVE to_serializable(_)
to_serializable(obj) ==
    IF IsDict(obj)
    THEN PyDict(Tuple([i \in 1..Len(obj.v) |-> <<obj.v[i][1], to_serializable(obj.v[i][2])>>]))
    ELSE IF IsList(obj)
    THEN PyList(Tuple([i \in 1..Len(obj.v) |-> to_serializable(obj.v[i])]))
    ELSE obj

\* the document a reader of the written file gets: _quoted_representer strips
\* the quote characters and emits a double-quoted string scalar,
\* _literal_representer a folded string scalar
RECURSIVE Dumped(_)
Dumped(obj) ==
    CASE obj.t = "dict" ->
           PyDict(Tuple([i \in 1..Len(obj.v) |-> <<obj.v[i][1], Dumped(obj.v[i][2])>>]))
      [] obj.t = "list" -> PyList(Tuple([i \in 1..Len(obj.v) |-> Dumped(obj.v[i])]))
      [] obj.t = "QuotedStr" -> PyStr(StripChars(obj.v, {DQUOTE}))
      [] obj.t = "LiteralStr" -> PyStr(obj.v)
      [] OTHER -> obj

(***************************************************************************)
(* The pipeline of main(): load, standardize, validate, save               *)
(***************************************************************************)
\* the longest question list of a loaded document
MaxQuestions == 2

SeqsUpTo(S, n) == UNION {[1..k -> S] : k \in 0..n}

\* std before standardize ran, saved before the output file is written
NotRun == [status |-> "none", value |-> PyNone]

Unwritten == PyNone

\* the command line: the program name alone, with an input path, with both paths
ArgCounts == {1, 2, 3}

\* elements of a question list: records of several shapes, and values that
\* are no mapping at all
QuestionElements ==
    { PyDict(<<>>),
      PyDict(<< <<PyStr(<<"q">>), PyStr(<<"1","+","1","?">>)>>,
                <<PyStr(<<"o","p","t","i","o","n","s">>), PyList(<<PyStr(<<"2">>), PyStr(<<"3">>)>>)>>,
                <<PyStr(<<"a","n","s","w","e","r">>), PyStr(<<"A">>)>>,
                <<PyStr(<<"d","i","f","f","i","c","u","l","t","y">>), PyStr(<<"e","Z">>)>> >>),
      PyDict(<< <<PyStr(<<"i","d">>), PyStr(<<"7">>)>>,
                <<PyStr(<<"Q","u","e","s","t","i","o","n">>), PyStr(<<" ","t"," ">>)>>,
                <<PyStr(<<"A","n","s","w","e","r">>), PyList(<<PyStr(<<"a">>), PyStr(<<"x","y","z">>)>>)>>,
                <<PyStr(<<"e","x","a","m">>), PyStr(<<"c","o","r","e",","," ","A","R","C","H","I","T","E","C","T">>)>> >>),
      PyDict(<< <<PyStr(<<"Q","u","e","s","t","i","o","n"," ","N","o">>), PyNone>>,
                <<PyStr(<<"q","u","e","s","t","i","o","n">>), PyNone>>,
                <<PyStr(<<"D","i","f","f","i","c","u","l","t","y">>), PyStr(<<"h","a","r","d">>)>> >>),
      PyDict(<< <<PyInt(1), PyStr(<<"x">>)>> >>),
      PyStr(<<"x">>),
      PyNone,
      PyList(<<>>) }

\* values of the questions field that are no list
NonListValues ==
    { PyDict(<<>>), PyStr(<<>>), PyInt(0), PyBool(FALSE),
      PyDict(<< <<PyStr(<<"a">>), PyInt(1)>> >>), PyStr(<<"a","b","c">>), PyInt(5), PyBool(TRUE) }

QuestionsValues ==
    NonListValues \cup {PyNone}
      \cup {PyList(qs) : qs \in SeqsUpTo(QuestionElements, MaxQuestions)}

\* what precedes the questions field in the document
DocumentHeads ==
    { <<>>,
      << <<PyStr(<<"T","o","p","i","c">>), PyStr(<<" ","X"," ">>)>>,
         <<PyStr(<<"T","o","t","a","l"," ","Q","u","e","s","t","i","o","n"," ","C","o","u","n","t">>), PyInt(99)>> >> }

\* what yaml.safe_load can return: mappings, and documents that are none
Documents ==
    { PyDict(h \o << <<PyStr(k), v>> >>) :
        h \in DocumentHeads, k \in {<<"q","u","e","s","t","i","o","n","s">>, <<"A","l","l"," ","Q","u","e","s","t","i","o","n","s">>},
        v \in QuestionsValues }
      \cup { PyDict(<<>>), PyNone, PyList(<<>>), PyStr(<<"s">>),
             PyDict(<< <<PyInt(1), PyList(<<>>)>> >>) }

Init ==
    /\ pc = "start"
    /\ argc \in ArgCounts
    /\ raw = PyNone
    /\ std = NotRun
    /\ issues = <<>>
    /\ formatted = PyNone
    /\ saved = Unwritten
    /\ arg = PyNone
    /\ ret = NotRun

\* len(sys.argv) < 2: print the usage and sys.exit(1)
Usage ==
    /\ pc = "start"
    /\ argc < 2
    /\ pc' = "exit"
    /\ UNCHANGED <<argc, raw, std, issues, formatted, saved, arg, ret>>

\* raw = load_yaml(input_path)
Load ==
    /\ pc = "start"
    /\ argc >= 2
    /\ \E d \in Documents : raw' = d
    /\ pc' = "loaded"
    /\ UNCHANGED <<argc, std, issues, formatted, saved, arg, ret>>

\* std = standardize(raw); main catches nothing, so an exception ends the run
Standardize ==
    /\ pc = "loaded"
    /\ std' = standardize(raw)
    /\ pc' = IF std'.status = "ok" THEN "standardized" ELSE "aborted"
    /\ UNCHANGED <<argc, raw, issues, formatted, saved, arg, ret>>

\* issues = validate(std); the issues are printed and nothing else is done
\* with them
Validate ==
    /\ pc = "standardized"
    /\ issues' = validate(std.value)
    /\ pc' = "validated"
    /\ UNCHANGED <<argc, raw, std, formatted, saved, arg, ret>>

\* a mutation of Format: validation issues end the run before the write
Format_OnlyWhenValid ==
    /\ pc = "validated"
    /\ issues = <<>>
    /\ formatted' = format_for_yaml(std.value)
    /\ pc' = "formatted"
    /\ UNCHANGED <<argc, raw, std, issues, saved, arg, ret>>

\* formatted = format_for_yaml(std), whatever validate reported
Format ==
    /\ pc = "validated"
    /\ formatted' = format_for_yaml(std.value)
    /\ pc' = "formatted"
    /\ UNCHANGED <<argc, raw, std, issues, saved, arg, ret>>

\* save_yaml(to_serializable(formatted), output_path)
Save ==
    /\ pc = "formatted"
    /\ saved' = Dumped(to_serializable(formatted))
    /\ pc' = "done"
    /\ UNCHANGED <<argc, raw, std, issues, formatted, arg, ret>>

Next == Usage \/ Load \/ Standardize \/ Validate \/ Format \/ Save

Spec == Init /\ [][Next]_vars

\* main runs its statements one after the other: once standardize has
\* returned, each of the statements that follow it is executed
LiveSpec == Spec /\ WF_vars(Validate) /\ WF_vars(Format) /\ WF_vars(Save)

(***************************************************************************)
(* Properties of the pipeline                                              *)
(***************************************************************************)
\* d[k] of a dict value with a string key
Get(d, k) == DictGet(d.v, PyStr(k))

\* the loaded document is a mapping with string keys, and standardize ran on it
TransformRan == std # NotRun /\ IsDict(raw) /\ ~FirstValueRaises(raw)

\* the value the questions aliases resolve to in the loaded document
ResolvedQuestions == first_value(raw, QUESTIONS_KEYS)

\* the elements of the question sequence of the loaded document: none when
\* the field is absent or resolves to no sequence
InputQuestions == IF IsList(ResolvedQuestions) THEN ResolvedQuestions.v ELSE <<>>

\* n < 1000 as three decimal digits
Pad3Of(n) ==
    <<Digits[((n \div 100) % 10) + 1], Digits[((n \div 10) % 10) + 1], Digits[(n % 10) + 1]>>

NoIdResolves(q) == first_value(q, Q_NO_KEYS) = PyNone

\* C1: whenever the questions field resolves to a sequence, standardize
\* returns a knowledge base with one question per element of that sequence,
\* in input order, and a total count equal to the number of questions.
C1_OneQuestionPerElement ==
    (TransformRan /\ IsList(ResolvedQuestions)) =>
        /\ std.status = "ok"
        /\ LET qs == Get(std.value, OUT_QUESTIONS).v
               in == ResolvedQuestions.v
           IN  /\ Len(qs) = Len(in)
               /\ Get(std.value, OUT_TOTAL) = PyInt(Len(qs))
               /\ \A i \in 1..Len(in) :
                      qs[i] = standardize_question(in[i], i - 1).value

\* C2: whenever the questions field resolves to a value that is no sequence,
\* falsy values included, standardize fails with the structural error
\* (ValueError) and returns no knowledge base.
C2_NonSequenceIsStructuralError ==
    (TransformRan /\ ResolvedQuestions # PyNone /\ ~IsList(ResolvedQuestions)) =>
        /\ std.status = "ValueError"
        /\ std.value = PyNone
        /\ pc = "aborted"

\* C3: on a document that is a mapping, the structural error on a questions
\* field that is no sequence is the only failure of standardize: every other
\* run returns a knowledge base.
C3_OnlyStructuralFailure ==
    (std # NotRun /\ IsDict(raw)) =>
        \/ std.status = "ok"
        \/ /\ std.status = "ValueError"
           /\ ~FirstValueRaises(raw)
           /\ ~IsList(ResolvedQuestions)

\* C8 as stated: in the written document, a question whose record resolves
\* no id carries its 0-based index, zero-padded to 3 digits.
C8_FallbackIdIsZeroBasedIndex ==
    saved # Unwritten =>
        \A i \in 1..Len(InputQuestions) :
            NoIdResolves(InputQuestions[i]) =>
                Get(Get(saved, OUT_QUESTIONS).v[i], OUT_Q_NO) = PyStr(Pad3Of(i - 1))

\* C8 amended: a question whose record resolves no id carries its 1-based
\* position (index + 1), zero-padded to 3 digits: between a pair of
\* double-quote characters in the knowledge base standardize returns, and
\* bare in the written document.
C8_FallbackIdIsOneBasedPosition ==
    /\ std.status = "ok" =>
         \A i \in 1..Len(Get(std.value, OUT_QUESTIONS).v) :
            NoIdResolves(InputQuestions[i]) =>
                Get(Get(std.value, OUT_QUESTIONS).v[i], OUT_Q_NO)
                    = PyStr(<<DQUOTE>> \o Pad3Of(i) \o <<DQUOTE>>)
    /\ saved # Unwritten =>
         \A i \in 1..Len(Get(saved, OUT_QUESTIONS).v) :
            NoIdResolves(InputQuestions[i]) =>
                Get(Get(saved, OUT_QUESTIONS).v[i], OUT_Q_NO) = PyStr(Pad3Of(i))

\* a written document whose second question resolved no id and whose first did
C8_SecondQuestionWithoutId ==
    /\ saved # Unwritten
    /\ Len(InputQuestions) = 2
    /\ ~NoIdResolves(InputQuestions[1])
    /\ NoIdResolves(InputQuestions[2])

\* C10: the output is written if and only if standardize returned: nothing
\* is ever written unless it returned, the structural error ends the run
\* with nothing written, and once it has returned the write follows,
\* validation issues or not.
C10_WriteIffTransformReturned ==
    /\ [](saved # Unwritten => std.status = "ok")
    /\ [](std.status = "ValueError" => (pc = "aborted" /\ saved = Unwritten))
    /\ [](pc = "aborted" => saved = Unwritten)
    /\ (std.status = "ok") ~> (saved # Unwritten)

\* the file was written although validate reported issues
C10_WrittenDespiteIssues ==
    pc = "done" /\ saved # Unwritten /\ Len(issues) >= 2

(***************************************************************************)
(* standardize applied to its own result                                   *)
(***************************************************************************)
InitIdem == Init /\ argc = 2

\* standardize(std): the returned knowledge base is itself a mapping under
\* the canonical field names
StandardizeAgain ==
    /\ pc = "standardized"
    /\ ret' = standardize(std.value)
    /\ pc' = "restandardized"
    /\ UNCHANGED <<argc, raw, std, issues, formatted, saved, arg>>

NextIdem == Load \/ Standardize \/ StandardizeAgain

SpecIdem == InitIdem /\ [][NextIdem]_vars

\* C4: standardize applied to a knowledge base it returned returns a
\* knowledge base equal to it, field by field.
C4_TransformIdempotent == pc = "restandardized" => ret = std

(***************************************************************************)
(* The field resolver on its own                                           *)
(***************************************************************************)
\* the most items of a resolved document
MaxItems == 2

ResolveKeys == {<<"T","o","p","i","c">>, <<"t","o","p","i","c">>, <<" ","T","O","P","I","C"," ">>, <<"q">>}

\* values that are present: two texts and the empty, falsy text
ResolveValues == {PyStr(<<>>), PyStr(<<"A">>), PyStr(<<"B">>)}

\* a dict holds each key once
DistinctKeys(items) ==
    \A i, j \in 1..Len(items) : i # j => items[i][1] # items[j][1]

ResolveDocuments ==
    { PyDict(items) :
        items \in { s \in SeqsUpTo({<<PyStr(k), v>> : k \in ResolveKeys, v \in ResolveValues},
                                   MaxItems) : DistinctKeys(s) } }

AliasLists == {TOPIC_KEYS, Q_TEXT_KEYS, Q_TOPIC_KEYS}

InitResolve ==
    /\ pc = "call"
    /\ argc = 0
    /\ raw = PyNone
    /\ std = NotRun
    /\ issues = <<>>
    /\ formatted = PyNone
    /\ saved = Unwritten
    /\ \E d \in ResolveDocuments, ks \in AliasLists : arg = [doc |-> d, keys |-> ks]
    /\ ret = NotRun

\* _first_value(d, *keys)
Resolve ==
    /\ pc = "call"
    /\ ret' = Returned(first_value(arg.doc, arg.keys))
    /\ pc' = "returned"
    /\ UNCHANGED <<argc, raw, std, issues, formatted, saved, arg>>

SpecResolve == InitResolve /\ [][Resolve]_vars

\* a document key and an alias are the same field name
KeyMatches(k, alias) == Strip(Lower(k)) = Strip(Lower(alias))

\* the positions, in priority order, of the aliases that match a key of items
MatchingAliases(items, keys) ==
    {j \in 1..Len(keys) : \E i \in 1..Len(items) : KeyMatches(items[i][1].v, keys[j])}

\* the rearrangements of the items of a document
Reorderings(items) ==
    { Tuple([i \in 1..Len(items) |-> items[p[i]]]) :
        p \in {f \in [1..Len(items) -> 1..Len(items)] :
                 \A i, j \in 1..Len(items) : i # j => f[i] # f[j]} }

\* C5: the resolver returns the value of the first alias, in priority order,
\* that matches a document key after case folding and trimming; it returns
\* the same for every ordering of the document's keys; and it returns absent
\* only when no alias matches any key.
C5_FirstMatchingAliasAnyKeyOrder ==
    pc = "returned" =>
        LET items == arg.doc.v
            hits  == MatchingAliases(items, arg.keys)
        IN  /\ hits = {} => ret.value = PyNone
            /\ hits # {} =>
                 /\ ret.value # PyNone
                 /\ \E i \in 1..Len(items) :
                       /\ KeyMatches(items[i][1].v, arg.keys[SetMin(hits)])
                       /\ ret.value = items[i][2]
            /\ \A other \in Reorderings(items) :
                   first_value(PyDict(other), arg.keys) = ret.value

(***************************************************************************)
(* normalize_answer on its own                                             *)
(***************************************************************************)
\* the most answers of a multi-answer input
MaxParts == 2

AnswerLetters == {"a", "c"}

AnswerForms == {"letter", "LETTER", "option x", "optionx", "OPTION  X"}

\* one answer, written in one of the forms
PartText(part) ==
    CASE part[1] = "letter"    -> <<part[2]>>
      [] part[1] = "LETTER"    -> <<UpperChar(part[2])>>
      [] part[1] = "option x"  -> <<"o","p","t","i","o","n"," ">> \o <<part[2]>>
      [] part[1] = "optionx"   -> <<"o","p","t","i","o","n">> \o <<part[2]>>
      [] part[1] = "OPTION  X" -> <<"O","P","T","I","O","N"," "," ">> \o <<UpperChar(part[2])>>

AnswerShapes == {"sequence", "a,b", "a, b"}

\* the answers as a sequence, or joined into one comma-separated string
AnswerInput(parts, shape) ==
    LET texts == Tuple([i \in 1..Len(parts) |-> PartText(parts[i])])
    IN  CASE shape = "sequence" -> PyList(Tuple([i \in 1..Len(texts) |-> PyStr(texts[i])]))
          [] shape = "a,b"      -> PyStr(Join(<<",">>, texts))
          [] shape = "a, b"     -> PyStr(Join(<<","," ">>, texts))

InitAnswer ==
    /\ pc = "call"
    /\ argc = 0
    /\ raw = PyNone
    /\ std = NotRun
    /\ issues = <<>>
    /\ formatted = PyNone
    /\ saved = Unwritten
    /\ \E parts \in SeqsUpTo(AnswerForms \X AnswerLetters, MaxParts) \ {<<>>},
          shape \in AnswerShapes :
          arg = [ letters |-> Tuple([i \in 1..Len(parts) |-> parts[i][2]]),
                  input   |-> AnswerInput(parts, shape) ]
    /\ ret = NotRun

\* normalize_answer(raw)
NormalizeAnswer ==
    /\ pc = "call"
    /\ ret' = Returned(PyStr(normalize_answer(arg.input)))
    /\ pc' = "returned"
    /\ UNCHANGED <<argc, raw, std, issues, formatted, saved, arg>>

SpecAnswer == InitAnswer /\ [][NormalizeAnswer]_vars

\* C6: a multi-answer input, given as a sequence or as one comma-separated
\* string of bare letters or option-letter forms, is returned as the
\* canonical label of each of its answers, in input order, joined by ", ".
C6_EveryAnswerCanonical ==
    pc = "returned" =>
        ret.value = PyStr(Join(<<","," ">>, Tuple([i \in 1..Len(arg.letters) |->
                              <<"o","p","t","i","o","n"," ">> \o <<UpperChar(arg.letters[i])>>])))

(***************************************************************************)
(* normalize_difficulty on its own                                         *)
(***************************************************************************)
\* the most spaces around a difficulty text
MaxPad == 1

Spaces(n) == Tuple([i \in 1..n |-> " "])

\* the non-empty prefixes of the canonical values, whole values included
DifficultyPrefixes ==
    UNION {{SubSeq(d, 1, k) : k \in 1..Len(d)} : d \in VALID_DIFFICULTIES}

DifficultyTexts ==
    LET cased == UNION {{p, Lower(p), Upper(p)} : p \in DifficultyPrefixes}
        longer == {d \o x : d \in VALID_DIFFICULTIES, x \in {<<"e","s","t">>, <<" ","l","e","v","e","l">>, <<"x">>}}
        other == {<<>>, <<"x">>, <<"e","Z">>, <<"a","s","y">>, <<"5">>}
    IN  {Spaces(n) \o t \o Spaces(n) : t \in cased \cup longer \cup other, n \in 0..MaxPad}

DifficultyInputs ==
    {PyStr(t) : t \in DifficultyTexts}
      \cup {PyNone, PyInt(0), PyInt(5), PyBool(FALSE), PyBool(TRUE), PyList(<<>>),
            PyList(<<PyStr(<<"E","a","s","y">>)>>)}

InitDifficulty ==
    /\ pc = "call"
    /\ argc = 0
    /\ raw = PyNone
    /\ std = NotRun
    /\ issues = <<>>
    /\ formatted = PyNone
    /\ saved = Unwritten
    /\ arg \in DifficultyInputs
    /\ ret = NotRun

\* normalize_difficulty(raw)
NormalizeDifficulty ==
    /\ pc = "call"
    /\ ret' = Returned(PyStr(normalize_difficulty(arg)))
    /\ pc' = "returned"
    /\ UNCHANGED <<argc, raw, std, issues, formatted, saved, arg>>

SpecDifficulty == InitDifficulty /\ [][NormalizeDifficulty]_vars

\* the canonical values that the trimmed text of x is a non-empty
\* case-insensitive prefix of
PrefixedValues(x) ==
    LET s == Strip(Str(x))
    IN  {d \in VALID_DIFFICULTIES : s # <<>> /\ StartsWith(Lower(d), Lower(s))}

LeadingValues(x) ==
    {d \in VALID_DIFFICULTIES : StartsWith(Lower(Strip(Str(x))), Lower(d))}

CanonicalQuestion(i, text, options, answer, difficulty) ==
    PyDict(<<
      <<PyStr(OUT_Q_NO),          PyStr(<<DQUOTE>> \o ZFill(IntToStr(i), 3) \o <<DQUOTE>>)>>,
      <<PyStr(OUT_Q_TEXT),        PyStr(text)>>,
      <<PyStr(OUT_Q_OPTIONS),     PyDict(options)>>,
      <<PyStr(OUT_Q_ANSWER),      PyStr(answer)>>,
      <<PyStr(OUT_Q_EXPLANATION), PyStr(<<>>)>>,
      <<PyStr(OUT_Q_DIFFICULTY),  PyStr(difficulty)>>,
      <<PyStr(OUT_Q_TOPIC),       PyStr(<<>>)>>,
      <<PyStr(OUT_Q_SUBTOPIC),    PyStr(<<>>)>>,
      <<PyStr(OUT_Q_EXAM),        PyStr(<<"C","o","r","e">>)>> >>)

\* the field values validate looks at: empty and not, canonical and not
QuestionShapes ==
    {<<>>, <<"1","+","1","?">>}
      \X {<<>>, << <<PyStr(<<"o","p","t","i","o","n"," ","A">>), PyStr(<<"2">>)>> >>}
      \X {<<>>, <<"o","p","t","i","o","n"," ","A">>}
      \X {<<"E","a","s","y">>, <<"M","e","d","i","u","m">>, <<"E","x","t","r","e","m","e">>}

CanonicalKnowledgeBases ==
    { PyDict(<<
        <<PyStr(OUT_TOPIC),     PyStr(<<"X">>)>>,
        <<PyStr(OUT_SUBTOPIC),  PyStr(<<>>)>>,
        <<PyStr(OUT_TOTAL),     PyInt(Len(shapes))>>,
        <<PyStr(OUT_QUESTIONS),
          PyList(Tuple([i \in 1..Len(shapes) |->
             CanonicalQuestion(i, shapes[i][1], shapes[i][2], shapes[i][3],
                               shapes[i][4])]))>> >>) :
      shapes \in SeqsUpTo(QuestionShapes, MaxQuestions) }

\* arg keeps the knowledge base as it was handed to validate
InitValidate ==
    /\ pc = "standardized"
    /\ argc = 2
    /\ raw = PyNone
    /\ \E kb \in CanonicalKnowledgeBases : std = Returned(kb) /\ arg = kb
    /\ issues = <<>>
    /\ formatted = PyNone
    /\ saved = Unwritten
    /\ ret = NotRun

SpecValidate == InitValidate /\ [][Validate]_vars

\* the four defects of a question, in the order they are reported, each with
\* the text of its issue after the question number
Defects(q) ==
    << [found |-> Get(q, OUT_Q_TEXT) = PyStr(<<>>),
        text  |-> <<":"," ","m","i","s","s","i","n","g"," ","q","u","e","s","t","i","o","n"," ","t","e","x","t">>],
       [found |-> Get(q, OUT_Q_OPTIONS) = PyDict(<<>>),
        text  |-> <<":"," ","n","o"," ","o","p","t","i","o","n","s"," ","f","o","u","n","d">>],
       [found |-> Get(q, OUT_Q_ANSWER) = PyStr(<<>>),
        text  |-> <<":"," ","m","i","s","s","i","n","g"," ","c","o","r","r","e","c","t"," ","a","n","s","w","e","r">>],
       [found |-> Get(q, OUT_Q_DIFFICULTY).v \notin {<<"E","a","s","y">>, <<"M","e","d","i","u","m">>, <<"H","a","r","d">>},
        text  |-> <<":"," ","i","n","v","a","l","i","d"," ","d","i","f","f","i","c","u","l","t","y"," ","'">> \o Get(q, OUT_Q_DIFFICULTY).v \o <<"'">>] >>

\* one issue for each defect found, named after the question
ExpectedIssues(q) ==
    LET found == SelectSeq(Defects(q), LAMBDA d : d.found)
    IN  Tuple([i \in 1..Len(found) |-> <<"Q">> \o Get(q, OUT_Q_NO).v \o found[i].text])

\* the issues of the first n questions
RECURSIVE ExpectedUpTo(_, _)
ExpectedUpTo(qs, n) ==
    IF n = 0 THEN <<>> ELSE ExpectedUpTo(qs, n - 1) \o ExpectedIssues(qs[n])

\* C9: validate leaves the knowledge base as it was, and returns, question by
\* question in question order, one issue for each and only each defect of
\* the question: empty text, empty options, empty answer, a difficulty
\* outside Easy, Medium, Hard.
C9_ValidateReportsExactlyTheDefects ==
    pc = "validated" =>
        /\ std.value = arg
        /\ issues = ExpectedUpTo(Get(arg, OUT_QUESTIONS).v,
                                 Len(Get(arg, OUT_QUESTIONS).v))

\* a question with text and answer, no options and the difficulty Extreme
\* was validated: two issues, the options then the difficulty
C9_NoOptionsAndExtreme ==
    /\ pc = "validated"
    /\ Len(Get(std.value, OUT_QUESTIONS).v) = 1
    /\ LET q == Get(std.value, OUT_QUESTIONS).v[1]
       IN  /\ Get(q, OUT_Q_TEXT) # PyStr(<<>>)
           /\ Get(q, OUT_Q_ANSWER) # PyStr(<<>>)
           /\ Get(q, OUT_Q_OPTIONS) = PyDict(<<>>)
           /\ Get(q, OUT_Q_DIFFICULTY) = PyStr(<<"E","x","t","r","e","m","e">>)
    /\ issues = << <<"Q">> \o <<DQUOTE>> \o <<"0","0","1">> \o <<DQUOTE>> \o <<":"," ","n","o"," ","o","p","t","i","o","n","s"," ","f","o","u","n","d">>,
                   <<"Q">> \o <<DQUOTE>> \o <<"0","0","1">> \o <<DQUOTE>>
                       \o <<":"," ","i","n","v","a","l","i","d"," ","d","i","f","f","i","c","u","l","t","y"," ","'","E","x","t","r","e","m","e","'">> >>

====
